---------------------------- MODULE Spec2Model ----------------------------
(***************************************************************************)
(* State-machine model of BotService (bot_service.py): the start/stop      *)
(* lifecycle, the connection attempt with its demo-mode fallback, the      *)
(* refresh loop run by worker threads, and the manual actions.             *)
(*                                                                         *)
(* Request handlers (Flask threads) and loop workers (threading.Thread)    *)
(* interleave at statement granularity: BotService takes no lock.          *)
(*                                                                         *)
(* Scales: fractions and percentages are integers in 1/10 of a percentage  *)
(* point (0.75 -> 750, 68.5 % -> 685); amounts and money are in 1/100 of a *)
(* unit (15.50 -> 1550); hourly rates are in 1/100000 (1.5 -> 150000).     *)
(***************************************************************************)
EXTENDS Integers, Sequences, FiniteSets, TLC

(* ------------------------------ bounds -------------------------------- *)

\* Loop threads alive at the same time.
MaxWorkers == 2

\* Wall-clock seconds the model lets pass (datetime.now(), time.time()).
MaxClock == 1

\* Entries the manual actions may append to the trade history.
MaxTrades == 1

\* Positions in a Position Store handed to the analysis functions.
MaxPositions == 3

\* Assets in an answer of get_margin_account.
MaxResponse == 3

(* --------------------------- program values --------------------------- *)

None == "None"

\* None where the value is otherwise a number (a time, a fraction).
NoNumber == 0 - 1

Handlers == {"h1", "h2"}

\* Positions of a loop thread in _bot_loop: "wait" (asleep in time.sleep, or
\* just started: about to test `while self.running`), then the statements of
\* the try block still to run: "positions", "loans", "tail".
LoopPcs == {"wait", "positions", "loans", "tail"}

\* config.default_max_ltv, config.default_min_ltv (fractions, in 1/1000).
DefaultMaxLtv == 750

DefaultMinLtv == 500

\* Outcomes of one call to the exchange client library: success, a
\* BinanceAPIException whose message names a restricted location, any other
\* BinanceAPIException, another exception whose text names a restricted
\* location, any other exception.
Outcomes == {"ok", "api_restricted", "api_other", "exc_restricted", "exc_other"}

\* "restricted location" in str(e).lower()  (the inner handler, any exception)
IsRestricted(e) == e \in {"api_restricted", "exc_restricted"}

\* The overrides a start_bot call may carry (max_ltv, min_ltv, auto_rebalance):
\* none, as in the call from __init__, or all three.
\* The locals of a handler that is in no call that keeps any.
NoLocals == [call |-> "none"]

NoArgs == [max_ltv |-> NoNumber, min_ltv |-> NoNumber, auto_rebalance |-> FALSE]

StartArgs == { NoArgs, [max_ltv |-> 800, min_ltv |-> 400, auto_rebalance |-> TRUE] }

\* The outcomes of the calls one connection attempt can make: the first
\* Client(...), its get_account(), the second Client(...), its get_account().
\* A call that is not reached is listed as "ok" only.
ConnectScenarios ==
    { s \in Outcomes \X Outcomes \X Outcomes \X Outcomes :
        /\ s[1] # "ok" => (s[2] = "ok" /\ s[3] = "ok" /\ s[4] = "ok")
        /\ ~IsRestricted(s[2]) => (s[3] = "ok" /\ s[4] = "ok")
        /\ s[3] # "ok" => s[4] = "ok" }

(* ------------- what the step just taken did (history) ---------------- *)

\* No step yet, or a step with nothing to report.
NoEvent == [kind |-> "none"]

\* A start_bot or stop_bot call reached the return statement `res`.
Returned(res) == [kind |-> "return", res |-> res]

\* initialize_client ran: the outcome of the identity check on the configured
\* endpoint ("na" when it was not reached), how many times the test endpoint
\* was tried after it and with what outcome, and what initialize_client made
\* of it ("live", "demo" or "failed").
Connected(prim, n, sec, result) ==
    [kind |-> "connect", prim |-> prim, secAttempts |-> n, sec |-> sec, result |-> result]

\* A loop thread refreshed `list`: with a client or not, what the exchange
\* would answer at that moment, and whether the list held data before.
Refreshed(list, live, rem, stale) ==
    [kind |-> "refresh", list |-> list, live |-> live, remote |-> rem, stale |-> stale]

\* A loop thread passed the loop test into the try block, or left the loop.
LoopEntered == [kind |-> "loop", how |-> "entered"]

LoopExited == [kind |-> "loop", how |-> "exited"]

\* A loop thread left the try block: by its last statement or by an exception.
LeftCycle(how) == [kind |-> "cycle", how |-> how]

(* ---------------- data installed by _setup_demo_mode ------------------ *)

DemoModePositions ==
    << [loan_id |-> "demo_loan_1", collateral_coin |-> "BTC", collateral_amount |-> 50,
        loan_coin |-> "USDT", loan_amount |-> 1500000, total_debt |-> 1500000,
        ltv_percentage |-> 685, hourly_interest |-> 150000, risk_level |-> "MEDIUM"],
       [loan_id |-> "demo_loan_2", collateral_coin |-> "ETH", collateral_amount |-> 800,
        loan_coin |-> "USDT", loan_amount |-> 1200000, total_debt |-> 1200000,
        ltv_percentage |-> 723, hourly_interest |-> 96000, risk_level |-> "HIGH"] >>

DemoModeLoans ==
    << [asset |-> "USDT", hourly_rate |-> 10, min_amount |-> 10000, max_amount |-> 10000000],
       [asset |-> "BUSD", hourly_rate |-> 9, min_amount |-> 10000, max_amount |-> 5000000] >>

DemoModeTrades(t) ==
    << [id |-> "demo_trade_1", type |-> "arbitrage", from_loan |-> "demo_loan_1",
        to_loan |-> "demo_loan_2", amount |-> 100000, profit |-> 1550,
        timestamp |-> t, status |-> "COMPLETED"] >>

(* ------------------------------- state -------------------------------- *)

VARIABLES
    client,          \* self.client: None, "main" or "testnet"
    use_testnet,     \* config.use_testnet
    running,         \* self.running
    thread,          \* self.thread is a Thread (TRUE) or None (FALSE)
    positions,       \* self.positions
    available_loans, \* self.available_loans
    trade_history,   \* self.trade_history
    last_update,     \* self.last_update
    error_message,   \* self.error_message
    max_ltv,         \* self.max_ltv
    min_ltv,         \* self.min_ltv
    auto_rebalance,  \* self.auto_rebalance
    stats,           \* self.stats
    now,             \* the wall clock, in seconds
    hpc,             \* per handler: where its request stands
    hargs,           \* per handler: the overrides of its start_bot call
    hlocal,          \* per handler: the local values of its call in progress
    loops,           \* per position in _bot_loop: the number of live threads there
    event,           \* history: what the step just taken did
    spawnsSinceStop, \* history: loop threads started since the last stop signal
    afterStop,       \* history: cycles completed since the stop signal was set
    everConnected    \* history: some initialize_client call has returned True

engine == << client, use_testnet, running, thread, positions,
             available_loans, trade_history, last_update, error_message,
             max_ltv, min_ltv, auto_rebalance, stats >>

handlerVars == << hpc, hargs, hlocal >>

history == << spawnsSinceStop, afterStop, everConnected >>

vars == << engine, now, handlerVars, loops, event, history >>

\* The loop threads that have not exited.
Alive == loops["wait"] + loops["positions"] + loops["loans"] + loops["tail"]

(* ---------------------------- construction ---------------------------- *)

InitStats ==
    [total_profit |-> 0, total_trades |-> 0, successful_trades |-> 0,
     failed_trades |-> 0, average_profit_per_trade |-> 0,
     start_time |-> NoNumber, uptime |-> 0]

Init ==
    /\ client = None
    /\ use_testnet \in BOOLEAN
    /\ running = FALSE
    /\ thread = FALSE
    /\ positions = << >>
    /\ available_loans = << >>
    /\ trade_history = << >>
    /\ last_update = NoNumber
    /\ error_message = None
    /\ max_ltv = DefaultMaxLtv
    /\ min_ltv = DefaultMinLtv
    /\ auto_rebalance = FALSE
    /\ stats = InitStats
    /\ now = 0
    /\ hpc = [h \in Handlers |-> "idle"]
    /\ hargs = [h \in Handlers |-> NoArgs]
    /\ hlocal = [h \in Handlers |-> NoLocals]
    /\ loops = [p \in LoopPcs |-> 0]
    /\ event = NoEvent
    /\ spawnsSinceStop = 0
    /\ afterStop = 0
    /\ everConnected = FALSE

(* ------------------------------ the clock ----------------------------- *)

Tick ==
    /\ now < MaxClock
    /\ now' = now + 1
    /\ event' = NoEvent
    /\ UNCHANGED << engine, handlerVars, loops, history >>

(* ------------------------- initialize_client -------------------------- *)

\* Variant: a second attempt after any failure of the first account query,
\* restricted location or not.
ClientAttemptRetryAlways(cl, testnet, ctor, prim, ctor2, sec) ==
    IF ctor # "ok"
    THEN [client |-> cl, err |-> ctor, prim |-> "na", secAttempts |-> 0, sec |-> "na"]
    ELSE IF testnet
    THEN [client |-> "testnet", err |-> prim, prim |-> prim, secAttempts |-> 0, sec |-> "na"]
    ELSE IF prim = "ok"
    THEN [client |-> "main", err |-> "ok", prim |-> prim, secAttempts |-> 0, sec |-> "na"]
    ELSE IF ctor2 # "ok"
    THEN [client |-> "main", err |-> ctor2, prim |-> prim, secAttempts |-> 1, sec |-> ctor2]
    ELSE [client |-> "testnet", err |-> sec, prim |-> prim, secAttempts |-> 1, sec |-> sec]

\* The control flow of the try block: which client object self.client ends
\* up holding, the exception that leaves the block ("ok" when none does),
\* and what was tried.  ctor and ctor2 are the outcomes of the two Client(...)
\* constructions, prim and sec those of the two get_account() calls.
ClientAttempt(cl, testnet, ctor, prim, ctor2, sec) ==
    IF ctor # "ok"
    THEN [client |-> cl, err |-> ctor, prim |-> "na", secAttempts |-> 0, sec |-> "na"]
    ELSE IF testnet
    THEN [client |-> "testnet", err |-> prim, prim |-> prim, secAttempts |-> 0, sec |-> "na"]
    ELSE IF prim = "ok"
    THEN [client |-> "main", err |-> "ok", prim |-> prim, secAttempts |-> 0, sec |-> "na"]
    ELSE IF IsRestricted(prim)
    THEN IF ctor2 # "ok"
         THEN [client |-> "main", err |-> ctor2, prim |-> prim, secAttempts |-> 1, sec |-> ctor2]
         ELSE [client |-> "testnet", err |-> sec, prim |-> prim, secAttempts |-> 1, sec |-> sec]
    ELSE [client |-> "main", err |-> prim, prim |-> prim, secAttempts |-> 0, sec |-> "na"]

\* Variant: the except clauses swallow the error and report success.
ConnectErrorSwallowed(e) ==
    IF e = "api_restricted"
    THEN [ok |-> TRUE, demo |-> TRUE, msg |-> "Geographic restriction detected. Running in demo mode."]
    ELSE [ok |-> TRUE, demo |-> FALSE, msg |-> "Connection Error"]

\* Variant: a restricted-location API error is treated like any other API
\* error, without the demo-mode fallback.
ConnectErrorNoDemo(e) ==
    IF e \in {"api_restricted", "api_other"}
    THEN [ok |-> FALSE, demo |-> FALSE, msg |-> "Binance API Error"]
    ELSE [ok |-> FALSE, demo |-> FALSE, msg |-> "Connection Error"]

\* The two except clauses: what initialize_client returns, whether it sets up
\* demo mode, and the error message it records, for the exception e.
ConnectError(e) ==
    IF e = "api_restricted"
    THEN [ok |-> TRUE, demo |-> TRUE, msg |-> "Geographic restriction detected. Running in demo mode."]
    ELSE IF e = "api_other"
    THEN [ok |-> FALSE, demo |-> FALSE, msg |-> "Binance API Error"]
    ELSE [ok |-> FALSE, demo |-> FALSE, msg |-> "Connection Error"]

\* self.stats after _setup_demo_mode has overwritten three of its counters.
DemoModeStats(st) ==
    [st EXCEPT !.total_trades = 1, !.successful_trades = 1, !.total_profit = 1550]

InitializeClient(h, s) ==
    /\ hpc[h] = "init"
    /\   LET a == ClientAttempt(client, use_testnet, s[1], s[2], s[3], s[4])
             r == ConnectError(a.err)
             ok == a.err = "ok" \/ r.ok
         IN  /\ IF a.err = "ok"
                THEN /\ client' = a.client
                     /\ error_message' = None
                     /\ UNCHANGED << positions, available_loans, trade_history, stats >>
                ELSE IF r.demo
                THEN /\ client' = None
                     /\ error_message' = r.msg
                     /\ positions' = DemoModePositions
                     /\ available_loans' = DemoModeLoans
                     /\ trade_history' = DemoModeTrades(now)
                     /\ stats' = DemoModeStats(stats)
                ELSE /\ client' = a.client
                     /\ error_message' = r.msg
                     /\ UNCHANGED << positions, available_loans, trade_history, stats >>
             /\ event' = Connected(a.prim, a.secAttempts, a.sec,
                                   IF a.err = "ok" THEN "live"
                                   ELSE IF r.demo THEN "demo" ELSE "failed")
             /\ hpc' = [hpc EXCEPT ![h] = IF ok THEN "spawn" ELSE "idle"]
             /\ hargs' = [hargs EXCEPT ![h] = IF ok THEN @ ELSE NoArgs]
             /\ everConnected' = (everConnected \/ ok)
    /\ UNCHANGED << use_testnet, running, thread, last_update, max_ltv, min_ltv,
                    auto_rebalance, now, loops, hlocal, spawnsSinceStop,
                    afterStop >>

(* ------------------------------ start_bot ----------------------------- *)

\* Variant: start_bot without its early return.
StartGuardAbsent(run) == FALSE

\* `if self.running: return False`
StartGuard(run) == run

\* The statement-level steps of a request: "idle" (no call in progress),
\* "init" (inside initialize_client), "spawn" (about to apply the overrides
\* and start the thread), "join" (inside thread.join).
StartCall(h, creds, a) ==
    /\ hpc[h] = "idle"
    /\   IF StartGuard(running)
         THEN /\ event' = Returned("already_running")
              /\ UNCHANGED << engine, hpc, hargs >>
         ELSE IF creds
         THEN /\ hpc' = [hpc EXCEPT ![h] = "init"]
              /\ hargs' = [hargs EXCEPT ![h] = a]
              /\ event' = NoEvent
              /\ UNCHANGED engine
         ELSE IF client = None
         THEN /\ error_message' = "No API credentials configured"
              /\ event' = Returned("no_credentials")
              /\ UNCHANGED << client, use_testnet, running, thread, positions,
                              available_loans, trade_history, last_update,
                              max_ltv, min_ltv, auto_rebalance, stats, hpc, hargs >>
         ELSE /\ hpc' = [hpc EXCEPT ![h] = "spawn"]
              /\ hargs' = [hargs EXCEPT ![h] = a]
              /\ event' = NoEvent
              /\ UNCHANGED engine
    /\ UNCHANGED << now, loops, hlocal, history >>

\* `if max_ltv is not None: self.max_ltv = max_ltv` (and the same for min_ltv)
Override(current, given) == IF given # NoNumber THEN given ELSE current

\* Lines 122-136: the overrides, the running flag, start_time, the new thread.
StartSpawn(h) ==
    /\ hpc[h] = "spawn"
    /\ Alive < MaxWorkers
    /\ thread' = TRUE
    /\ loops' = [loops EXCEPT !["wait"] = @ + 1]
    /\ max_ltv' = Override(max_ltv, hargs[h].max_ltv)
    /\ min_ltv' = Override(min_ltv, hargs[h].min_ltv)
    /\ auto_rebalance' = hargs[h].auto_rebalance
    /\ running' = TRUE
    /\ stats' = [stats EXCEPT !.start_time = now]
    /\ hpc' = [hpc EXCEPT ![h] = "idle"]
    /\ hargs' = [hargs EXCEPT ![h] = NoArgs]
    /\ event' = Returned("started")
    /\ spawnsSinceStop' = spawnsSinceStop + 1
    /\ afterStop' = 0
    /\ UNCHANGED << client, use_testnet, positions, available_loans,
                    trade_history, last_update, error_message, now, hlocal,
                    everConnected >>

(* ------------------------------ stop_bot ------------------------------ *)

\* Variant: stop_bot without its early return.
StopGuardAbsent(run) == FALSE

\* `if not self.running: return False`
StopGuard(run) == ~run

StopCall(h) ==
    /\ hpc[h] = "idle"
    /\ IF StopGuard(running)
       THEN /\ event' = Returned("not_running")
            /\ UNCHANGED << engine, hpc, spawnsSinceStop, afterStop >>
       ELSE /\ running' = FALSE
            /\ hpc' = [hpc EXCEPT ![h] = IF thread THEN "join" ELSE "idle"]
            /\ event' = IF thread THEN NoEvent ELSE Returned("stopped")
            /\ spawnsSinceStop' = 0
            /\ afterStop' = 0
            /\ UNCHANGED << client, use_testnet, thread, positions,
                            available_loans, trade_history, last_update,
                            error_message, max_ltv, min_ltv, auto_rebalance, stats >>
    /\ UNCHANGED << now, hargs, hlocal, loops, everConnected >>

\* self.thread.join(timeout=5) returns when the thread has exited or when the
\* five seconds are over, whichever comes first: it need not wait for the
\* thread, which sleeps config.update_interval (60) seconds between cycles.
StopJoin(h) ==
    /\ hpc[h] = "join"
    /\ hpc' = [hpc EXCEPT ![h] = "idle"]
    /\ event' = Returned("stopped")
    /\ UNCHANGED << engine, now, hargs, hlocal, loops, history >>

(* ------------------------- _process_positions ------------------------- *)

\* config.margin_call_ltv * 100 and config.liquidation_ltv * 100.
MarginCallLtv == 850

LiquidationLtv == 910

\* dict.get(key, default) on a record.
Get(rec, key, default) == IF key \in DOMAIN rec THEN rec[key] ELSE default

\* `current_ltv * 100 if current_ltv < 1 else current_ltv`: current_ltv is in
\* 1/1000 (0.75 -> 750, 75.0 -> 75000), the result in 1/10 percentage point.
LtvPercentage(current_ltv) ==
    IF current_ltv < 1000 THEN current_ltv ELSE current_ltv \div 100

\* Variant: the chain with `<=` in place of `<`.
RiskLevelInclusive(margin_call_buffer) ==
    IF margin_call_buffer <= 30 THEN "CRITICAL"
    ELSE IF margin_call_buffer <= 80 THEN "HIGH"
    ELSE IF margin_call_buffer <= 150 THEN "MEDIUM"
    ELSE "LOW"

\* The if/elif chain on margin_call_buffer (thresholds 3, 8 and 15 points).
RiskLevel(margin_call_buffer) ==
    IF margin_call_buffer < 30 THEN "CRITICAL"
    ELSE IF margin_call_buffer < 80 THEN "HIGH"
    ELSE IF margin_call_buffer < 150 THEN "MEDIUM"
    ELSE "LOW"

\* The record built from one raw position, for the two thresholds.
ProcessPosition(pos, margin_call_ltv, liquidation_ltv) ==
    LET loan_coin == Get(pos, "loanCoin", Get(pos, "asset", ""))
        collateral_coin == Get(pos, "collateralCoin", Get(pos, "asset", ""))
        current_ltv == Get(pos, "currentLTV", 0)
        ltv_percentage == LtvPercentage(current_ltv)
        margin_call_buffer == margin_call_ltv - ltv_percentage
        liquidation_buffer == liquidation_ltv - ltv_percentage
    IN  [loan_id |-> Get(pos, "loanId", loan_coin \o "_" \o collateral_coin),
         loan_coin |-> loan_coin,
         collateral_coin |-> collateral_coin,
         total_debt |-> Get(pos, "totalDebt", Get(pos, "totalAmount", 0)),
         collateral_amount |-> Get(pos, "collateralAmount", 0),
         current_ltv |-> current_ltv,
         ltv_percentage |-> ltv_percentage,
         margin_call_buffer |-> margin_call_buffer,
         liquidation_buffer |-> liquidation_buffer,
         risk_level |-> RiskLevel(margin_call_buffer),
         hourly_rate |-> Get(pos, "hourlyInterestRate", 0)]

\* float(rec.get(key, ...)): a raw record one of whose numeric fields holds
\* text that is no number, or None, carries the field "bad", which names the
\* key and what it holds; float raises ValueError on the text and TypeError
\* on None.
FloatError(rec, key) ==
    IF "bad" \in DOMAIN rec /\ rec.bad.field = key
    THEN IF rec.bad.holds = "text" THEN "ValueError" ELSE "TypeError"
    ELSE "ok"

\* The keys one iteration of the loop passes to float().
ProcessedKeys == {"totalDebt", "totalAmount", "collateralAmount", "currentLTV",
                  "hourlyInterestRate"}

\* The exception one iteration of the loop raises inside its try block.
ProcessError(pos) ==
    IF \E key \in ProcessedKeys : FloatError(pos, key) = "ValueError" THEN "ValueError"
    ELSE IF \E key \in ProcessedKeys : FloatError(pos, key) = "TypeError" THEN "TypeError"
    ELSE "ok"

\* The iteration appends a record.
WellFormed(pos) == ProcessError(pos) = "ok"

\* `except (ValueError, KeyError)` does not catch a TypeError: it leaves
\* _process_positions.
ProcessRaises(raw_positions) ==
    \E i \in DOMAIN raw_positions : ProcessError(raw_positions[i]) = "TypeError"

RECURSIVE ProcessPositions(_)
ProcessPositions(raw_positions) ==
    IF raw_positions = << >> THEN << >>
    ELSE LET pos == Head(raw_positions)
             rest == ProcessPositions(Tail(raw_positions))
         IN  IF WellFormed(pos)
             THEN << ProcessPosition(pos, MarginCallLtv, LiquidationLtv) >> \o rest
             ELSE rest

\* `[asset for asset in response['userAssets'] if float(asset.get('borrowed', 0)) > 0]`
BorrowedAssets(userAssets) ==
    SelectSeq(userAssets, LAMBDA asset : Get(asset, "borrowed", 0) > 0)

\* The list comprehension is outside the try block of _process_positions: an
\* exception of its float() call leaves it.
FilterRaises(userAssets) ==
    \E i \in DOMAIN userAssets : FloatError(userAssets[i], "borrowed") # "ok"

\* Lines 221-233, for an answer with the key userAssets: what self.positions
\* is assigned, `except Exception` included.
LivePositions(userAssets) ==
    IF FilterRaises(userAssets) THEN << >>
    ELSE IF ProcessRaises(BorrowedAssets(userAssets)) THEN << >>
    ELSE ProcessPositions(BorrowedAssets(userAssets))

\* The userAssets of the answer get_margin_account gives when the exchange is
\* up: one asset without debt, one with (amounts in 1/100).
RemoteUserAssets ==
    << [asset |-> "BTC", borrowed |-> 0],
       [asset |-> "USDT", borrowed |-> 150000] >>

\* The answer of get_margin_all_assets when the exchange is up.
RemoteAllAssets ==
    << [assetName |-> "USDT", minBorrowable |-> 100, maxBorrowable |-> 10000000] >>

\* `response[:10]`
FirstTen(response) ==
    SubSeq(response, 1, IF Len(response) > 10 THEN 10 ELSE Len(response))

\* The list built from the assets of that answer.
RECURSIVE LoanProducts(_)
LoanProducts(response) ==
    IF response = << >> THEN << >>
    ELSE << [asset |-> Get(Head(response), "assetName", None),
             min_amount |-> Get(Head(response), "minBorrowable", 0),
             max_amount |-> Get(Head(response), "maxBorrowable", 0),
             annual_rate |-> 8,
             status |-> "AVAILABLE"] >> \o LoanProducts(Tail(response))

(* ------------------------------ _bot_loop ----------------------------- *)

\* Variant: `while True:`.
LoopNeverStops(run) == TRUE

\* `while self.running:`
LoopContinues(run) == run

\* Variant: an exception in the cycle ends the thread.
LoopDiesOnException == "dead"

\* Where the thread goes after the except clause of the loop body: on to
\* time.sleep, which is outside the try block.
LoopAfterException == "wait"

\* Variant: a failed refresh keeps the stored positions.
UpdatePositionsKeep(cl, pos, rem) == pos

\* _update_positions.  Without a client it returns at once.  With one, the
\* first statement of its try block reads self.connected, an attribute that
\* BotService never assigns: the read raises AttributeError, the remote call
\* (get_margin_account) is never reached, and the outer except clause empties
\* the list, whatever the exchange would have answered (rem: "up" or "down").
UpdatePositions(cl, pos, rem) ==
    IF cl = None THEN pos ELSE << >>

\* Variant: _update_available_loans without `if not self.client: return`.
UpdateAvailableLoansAlways(cl, loans, rem) == << >>

\* _update_available_loans: the same shape, for self.available_loans.
UpdateAvailableLoans(cl, loans, rem) ==
    IF cl = None THEN loans ELSE << >>

\* self.stats after _update_stats at time t.
UpdateStats(st, t) ==
    LET up == IF st.start_time # NoNumber
              THEN [st EXCEPT !.uptime = t - st.start_time] ELSE st
    IN  IF up.total_trades > 0
        THEN [up EXCEPT !.average_profit_per_trade = up.total_profit \div up.total_trades]
        ELSE up

\* A thread moves from position p to position q of the loop.
Move(p, q) == [loops EXCEPT ![p] = @ - 1, ![q] = @ + 1]

\* time.sleep returns (or the thread has just started) and the thread tests
\* `while self.running`: it enters the try block, or leaves the loop and exits.
LoopCheck ==
    /\ loops["wait"] > 0
    /\ loops' = IF LoopContinues(running)
                THEN Move("wait", "positions")
                ELSE [loops EXCEPT !["wait"] = @ - 1]
    /\ event' = IF LoopContinues(running) THEN LoopEntered ELSE LoopExited
    /\ UNCHANGED << engine, now, handlerVars, history >>

RefreshPositions(rem) ==
    /\ loops["positions"] > 0
    /\ positions' = UpdatePositions(client, positions, rem)
    /\ event' = Refreshed("positions", client # None, rem, positions # << >>)
    /\ loops' = Move("positions", "loans")
    /\ UNCHANGED << client, use_testnet, running, thread,
                    available_loans, trade_history, last_update, error_message,
                    max_ltv, min_ltv, auto_rebalance, stats, now, handlerVars,
                    history >>

RefreshLoans(rem) ==
    /\ loops["loans"] > 0
    /\ available_loans' = UpdateAvailableLoans(client, available_loans, rem)
    /\ event' = Refreshed("loans", client # None, rem, available_loans # << >>)
    /\ loops' = Move("loans", "tail")
    /\ UNCHANGED << client, use_testnet, running, thread,
                    positions, trade_history, last_update, error_message,
                    max_ltv, min_ltv, auto_rebalance, stats, now, handlerVars,
                    history >>

\* The rest of the try block: _analyze_arbitrage_opportunities, whose result
\* the loop drops, and _auto_rebalance, which only logs, assign nothing; then
\* _update_stats and `self.last_update = datetime.now()`: the cycle is
\* complete and the thread goes to sleep.
FinishCycle ==
    /\ loops["tail"] > 0
    /\ stats' = UpdateStats(stats, now)
    /\ last_update' = now
    /\ afterStop' = IF running THEN afterStop ELSE afterStop + 1
    /\ event' = LeftCycle("completed")
    /\ loops' = Move("tail", "wait")
    /\ UNCHANGED << client, use_testnet, running, thread, positions,
                    available_loans, trade_history, error_message, max_ltv,
                    min_ltv, auto_rebalance, now, handlerVars, spawnsSinceStop,
                    everConnected >>

\* A statement of the rest of the try block raises (the two refresh steps
\* catch their own exceptions): `except Exception` records str(e) and the
\* thread goes on after the try statement.
LoopException ==
    /\ loops["tail"] > 0
    /\ error_message' = "Bot loop error"
    /\ event' = LeftCycle("exception")
    /\ loops' = IF LoopAfterException = "wait"
                THEN Move("tail", "wait")
                ELSE [loops EXCEPT !["tail"] = @ - 1]
    /\ UNCHANGED << client, use_testnet, running, thread, positions,
                    available_loans, trade_history, last_update, max_ltv,
                    min_ltv, auto_rebalance, stats, now, handlerVars, history >>

(* ------------------------------ analysis ------------------------------ *)

\* The minimum profitable spread (0.1) and the spread above which the
\* confidence is HIGH (0.5), in 1/100000.
MinSpread == 10000

HighSpread == 50000

Abs(x) == IF x < 0 THEN 0 - x ELSE x

Min(a, b) == IF a < b THEN a ELSE b

\* `pos.get('hourly_interest', pos.get('hourly_rate', 0))`
Rate(pos) == Get(pos, "hourly_interest", Get(pos, "hourly_rate", 0))

\* The record appended for the pair (pos1, pos2).  expected_profit, the
\* product of the spread, the amount (1/100) and 24, is kept in 1/10000 with
\* the spread taken in 1/100.
Opportunity(pos1, pos2) ==
    LET rate_diff == Rate(pos2) - Rate(pos1)
        transfer == Min(Get(pos1, "loan_amount", 0), Get(pos2, "collateral_amount", 0))
    IN  [type |-> "RATE_ARBITRAGE",
         from_loan_id |-> pos1.loan_id,
         to_loan_id |-> pos2.loan_id,
         from_coin |-> pos1.loan_coin,
         to_coin |-> pos2.loan_coin,
         rate_spread |-> rate_diff,
         transfer_amount |-> transfer,
         expected_profit |-> (rate_diff \div 1000) * transfer * 24,
         confidence |-> IF Abs(rate_diff) > HighSpread THEN "HIGH" ELSE "MEDIUM"]

\* Variant: the inner loop with `>=` in place of `>`.
RECURSIVE InnerLoopInclusive(_, _, _)
InnerLoopInclusive(ps, i, j) ==
    IF j > Len(ps) THEN << >>
    ELSE (IF Abs(Rate(ps[j]) - Rate(ps[i])) >= MinSpread
          THEN << Opportunity(ps[i], ps[j]) >> ELSE << >>)
         \o InnerLoopInclusive(ps, i, j + 1)

\* `for pos2 in self.positions[i+1:]`, from index j on, for pos1 = ps[i].
RECURSIVE InnerLoop(_, _, _)
InnerLoop(ps, i, j) ==
    IF j > Len(ps) THEN << >>
    ELSE (IF Abs(Rate(ps[j]) - Rate(ps[i])) > MinSpread
          THEN << Opportunity(ps[i], ps[j]) >> ELSE << >>)
         \o InnerLoop(ps, i, j + 1)

\* `for i, pos1 in enumerate(self.positions)`, from index i on.
RECURSIVE OuterLoop(_, _)
OuterLoop(ps, i) ==
    IF i > Len(ps) THEN << >>
    ELSE InnerLoop(ps, i, i + 1) \o OuterLoop(ps, i + 1)

\* _analyze_arbitrage_opportunities on the store ps.
AnalyzeArbitrageOpportunities(ps) ==
    IF Len(ps) < 2 THEN << >> ELSE OuterLoop(ps, 1)

\* Variant: the recommendation loop with `>=` and `<=`.
RECURSIVE RecommendationsInclusive(_, _, _)
RecommendationsInclusive(ps, maxLtv, minLtv) ==
    IF ps = << >> THEN << >>
    ELSE LET pos == Head(ps)
             rest == RecommendationsInclusive(Tail(ps), maxLtv, minLtv)
         IN  IF pos.ltv_percentage >= maxLtv
             THEN << [loan_id |-> pos.loan_id, action |-> "REDUCE",
                      amount |-> pos.total_debt \div 10, reason |-> "LTV too high",
                      priority |-> pos.risk_level] >> \o rest
             ELSE IF pos.ltv_percentage <= minLtv
             THEN << [loan_id |-> pos.loan_id, action |-> "INCREASE",
                      amount |-> pos.collateral_amount \div 10,
                      reason |-> "Can leverage more", priority |-> "LOW"] >> \o rest
             ELSE rest

\* The recommendation loop of get_strategy_analysis.  maxLtv and minLtv are
\* self.max_ltv and self.min_ltv in 1/1000, which is self.max_ltv * 100 in
\* 1/10 percentage point; `* 0.1` is \div 10.
RECURSIVE Recommendations(_, _, _)
Recommendations(ps, maxLtv, minLtv) ==
    IF ps = << >> THEN << >>
    ELSE LET pos == Head(ps)
             rest == Recommendations(Tail(ps), maxLtv, minLtv)
         IN  IF pos.ltv_percentage > maxLtv
             THEN << [loan_id |-> pos.loan_id, action |-> "REDUCE",
                      amount |-> pos.total_debt \div 10, reason |-> "LTV too high",
                      priority |-> pos.risk_level] >> \o rest
             ELSE IF pos.ltv_percentage < minLtv
             THEN << [loan_id |-> pos.loan_id, action |-> "INCREASE",
                      amount |-> pos.collateral_amount \div 10,
                      reason |-> "Can leverage more", priority |-> "LOW"] >> \o rest
             ELSE rest

\* What a call of one of the three functions computed.
Processed(raw, mc, liq, out) ==
    [kind |-> "processed", raw |-> raw, margin_call_ltv |-> mc,
     liquidation_ltv |-> liq, out |-> out]

Analyzed(out) == [kind |-> "opportunities", out |-> out]

Advised(recs) == [kind |-> "strategy", recommendations |-> recs]

LiveStored(userAssets, out) ==
    [kind |-> "live_positions", response |-> userAssets, out |-> out]

\* The live branch of _update_positions on the answer userAssets.
LivePositionsCall(userAssets) ==
    /\ positions' = LivePositions(userAssets)
    /\ event' = LiveStored(userAssets, positions')
    /\ UNCHANGED << client, use_testnet, running, thread, available_loans,
                    trade_history, last_update, error_message, max_ltv,
                    min_ltv, auto_rebalance, stats, now, handlerVars, loops,
                    history >>

\* One iteration of the loop of _process_positions, on the raw record raw.
ProcessPositionsCall(raw, mc, liq) ==
    /\ event' = Processed(raw, mc, liq, ProcessPosition(raw, mc, liq))
    /\ UNCHANGED << engine, now, handlerVars, loops, history >>

AnalyzeCall ==
    /\ event' = Analyzed(AnalyzeArbitrageOpportunities(positions))
    /\ UNCHANGED << engine, now, handlerVars, loops, history >>

GetStrategyAnalysis ==
    /\ event' = Advised(Recommendations(positions, max_ltv, min_ltv))
    /\ UNCHANGED << engine, now, handlerVars, loops, history >>

(* ------------- get_strategy_analysis, statement by statement ---------- *)

\* get_strategy_analysis takes no lock and no copy: it evaluates the attribute
\* self.positions anew in each of the statements below, and another thread
\* may assign the attribute in between.  The locals keep, besides the values
\* the function has computed so far, the list its first statement read.

\* `sum(pos['ltv_percentage'] for pos in self.positions)`
RECURSIVE SumLtv(_)
SumLtv(ps) ==
    IF ps = << >> THEN 0 ELSE Head(ps).ltv_percentage + SumLtv(Tail(ps))

\* `len([pos for pos in self.positions if pos['risk_level'] in ['HIGH', 'CRITICAL']])`
PositionsAtRisk(ps) ==
    Cardinality({ i \in DOMAIN ps : ps[i].risk_level \in {"HIGH", "CRITICAL"} })

\* What a get_strategy_analysis call ended with: its result, or the
\* ZeroDivisionError the route turns into an error response.
AnalysisFailed == [kind |-> "analysis", failed |-> TRUE]

AnalysisReturned(loc, at_risk) ==
    [kind |-> "analysis", failed |-> FALSE, first |-> loc.first,
     opportunities |-> loc.opportunities,
     recommendations |-> loc.recommendations,
     average_ltv |-> loc.average_ltv, positions_at_risk |-> at_risk]

\* `opportunities = self._analyze_arbitrage_opportunities()`
StrategyOpportunities(h) ==
    /\ hpc[h] = "idle"
    /\ hpc' = [hpc EXCEPT ![h] = "recommendations"]
    /\ hlocal' = [hlocal EXCEPT ![h] =
                      [call |-> "strategy", first |-> positions,
                       opportunities |-> AnalyzeArbitrageOpportunities(positions)]]
    /\ event' = NoEvent
    /\ UNCHANGED << engine, now, hargs, loops, history >>

\* `for pos in self.positions:` with its body.
StrategyRecommendations(h) ==
    /\ hpc[h] = "recommendations"
    /\ hpc' = [hpc EXCEPT ![h] = "average_test"]
    /\ hlocal' = [hlocal EXCEPT ![h] =
                      [call |-> "strategy", first |-> @.first,
                       opportunities |-> @.opportunities,
                       recommendations |-> Recommendations(positions, max_ltv, min_ltv)]]
    /\ event' = NoEvent
    /\ UNCHANGED << engine, now, hargs, loops, history >>

\* `... if self.positions else 0`: the condition is evaluated first.
StrategyAverageTest(h) ==
    /\ hpc[h] = "average_test"
    /\ IF positions # << >>
       THEN /\ hpc' = [hpc EXCEPT ![h] = "average_sum"]
            /\ UNCHANGED hlocal
       ELSE /\ hpc' = [hpc EXCEPT ![h] = "at_risk"]
            /\ hlocal' = [hlocal EXCEPT ![h] =
                              [call |-> "strategy", first |-> @.first,
                               opportunities |-> @.opportunities,
                               recommendations |-> @.recommendations,
                               average_ltv |-> 0]]
    /\ event' = NoEvent
    /\ UNCHANGED << engine, now, hargs, loops, history >>

\* `sum(pos['ltv_percentage'] for pos in self.positions)`
StrategyAverageSum(h) ==
    /\ hpc[h] = "average_sum"
    /\ hpc' = [hpc EXCEPT ![h] = "average_divide"]
    /\ hlocal' = [hlocal EXCEPT ![h] =
                      [call |-> "strategy", first |-> @.first,
                       opportunities |-> @.opportunities,
                       recommendations |-> @.recommendations,
                       total |-> SumLtv(positions)]]
    /\ event' = NoEvent
    /\ UNCHANGED << engine, now, hargs, loops, history >>

\* `/ len(self.positions)`: a division by zero raises ZeroDivisionError, which
\* ends the call.
StrategyAverageDivide(h) ==
    /\ hpc[h] = "average_divide"
    /\ IF Len(positions) = 0
       THEN /\ hpc' = [hpc EXCEPT ![h] = "idle"]
            /\ hlocal' = [hlocal EXCEPT ![h] = NoLocals]
            /\ event' = AnalysisFailed
       ELSE /\ hpc' = [hpc EXCEPT ![h] = "at_risk"]
            /\ hlocal' = [hlocal EXCEPT ![h] =
                              [call |-> "strategy", first |-> @.first,
                               opportunities |-> @.opportunities,
                               recommendations |-> @.recommendations,
                               average_ltv |-> @.total \div Len(positions)]]
            /\ event' = NoEvent
    /\ UNCHANGED << engine, now, hargs, loops, history >>

\* 'positions_at_risk', and the return.
StrategyReturn(h) ==
    /\ hpc[h] = "at_risk"
    /\ hpc' = [hpc EXCEPT ![h] = "idle"]
    /\ hlocal' = [hlocal EXCEPT ![h] = NoLocals]
    /\ event' = AnalysisReturned(hlocal[h], PositionsAtRisk(positions))
    /\ UNCHANGED << engine, now, hargs, loops, history >>

StrategyStep(h) ==
    \/ StrategyOpportunities(h)
    \/ StrategyRecommendations(h)
    \/ StrategyAverageTest(h)
    \/ StrategyAverageSum(h)
    \/ StrategyAverageDivide(h)
    \/ StrategyReturn(h)

(* --------------------------- manual actions --------------------------- *)

\* Variant: a fee of 1 % instead of 0.1 %.
FeeOnePercent(amount) == amount \div 100

\* `transfer_amount * 0.001`, in 1/100 of a unit.
Fee(amount) == amount \div 1000

\* The trade record execute_manual_arbitrage builds at second t; its id is
\* f"trade_{int(time.time())}".
ArbitrageTrade(amount, profit, t) ==
    [id |-> "trade_" \o ToString(t), type |-> "MANUAL_ARBITRAGE", from_loan_id |-> "A",
     to_loan_id |-> "B", amount |-> amount, status |-> "SIMULATED",
     timestamp |-> t, profit |-> profit, fees |-> Fee(amount)]

ExecuteManualArbitrage(h, amount, profit) ==
    /\ hpc[h] = "idle"
    /\ Len(trade_history) <= MaxTrades
    /\   LET trade == ArbitrageTrade(amount, profit, now)
         IN  /\ trade_history' = Append(trade_history, trade)
             /\ stats' = [stats EXCEPT !.total_trades = @ + 1,
                                       !.successful_trades = @ + 1,
                                       !.total_profit = @ + trade.profit]
    /\ event' = Returned("trade")
    /\ UNCHANGED << client, use_testnet, running, thread, positions,
                    available_loans, last_update, error_message, max_ltv,
                    min_ltv, auto_rebalance, now, handlerVars, loops, history >>

\* execute_manual_rebalance builds its record and returns it: it assigns no
\* attribute of the service.
ExecuteManualRebalance(h) ==
    /\ hpc[h] = "idle"
    /\ event' = Returned("rebalance")
    /\ UNCHANGED << engine, now, handlerVars, loops, history >>

(* ----------- execute_manual_arbitrage, statement by statement --------- *)

\* execute_manual_arbitrage takes no lock.  `self.stats[key] += x` loads the
\* counter, adds, and stores the result: another thread may run between the
\* load and the store.  The three counters, in the order of lines 476-478.
ArbitrageCounters == << "total_trades", "successful_trades", "total_profit" >>

\* What the statement adds to the counter.
ArbitrageAddend(key, trade) == IF key = "total_profit" THEN trade.profit ELSE 1

\* The positions of a handler inside the call.
ArbitragePcs ==
    { "load " \o ArbitrageCounters[k] : k \in DOMAIN ArbitrageCounters }
    \cup { "store " \o ArbitrageCounters[k] : k \in DOMAIN ArbitrageCounters }

\* Lines 463-475: the trade record and `self.trade_history.append(trade)`.
ArbitrageAppend(h, amount, profit) ==
    /\ hpc[h] = "idle"
    /\ Len(trade_history) <= MaxTrades
    /\ trade_history' = Append(trade_history, ArbitrageTrade(amount, profit, now))
    /\ hpc' = [hpc EXCEPT ![h] = "load " \o ArbitrageCounters[1]]
    /\ hlocal' = [hlocal EXCEPT ![h] =
                      [call |-> "arbitrage", profit |-> profit]]
    /\ event' = NoEvent
    /\ UNCHANGED << client, use_testnet, running, thread, positions,
                    available_loans, last_update, error_message, max_ltv,
                    min_ltv, auto_rebalance, stats, now, hargs, loops, history >>

\* The load of the k-th `+=`.
ArbitrageLoad(h, k) ==
    /\ hpc[h] = "load " \o ArbitrageCounters[k]
    /\ hpc' = [hpc EXCEPT ![h] = "store " \o ArbitrageCounters[k]]
    /\ hlocal' = [hlocal EXCEPT ![h] =
                      [call |-> "arbitrage", profit |-> @.profit,
                       loaded |-> stats[ArbitrageCounters[k]]]]
    /\ event' = NoEvent
    /\ UNCHANGED << engine, now, hargs, loops, history >>

\* The store of the k-th `+=`; after the last one the call returns.
ArbitrageStore(h, k) ==
    /\ hpc[h] = "store " \o ArbitrageCounters[k]
    /\ stats' = [stats EXCEPT ![ArbitrageCounters[k]] =
                     hlocal[h].loaded + ArbitrageAddend(ArbitrageCounters[k], hlocal[h])]
    /\ IF k < Len(ArbitrageCounters)
       THEN /\ hpc' = [hpc EXCEPT ![h] = "load " \o ArbitrageCounters[k + 1]]
            /\ hlocal' = [hlocal EXCEPT ![h] =
                              [call |-> "arbitrage", profit |-> @.profit]]
            /\ event' = NoEvent
       ELSE /\ hpc' = [hpc EXCEPT ![h] = "idle"]
            /\ hlocal' = [hlocal EXCEPT ![h] = NoLocals]
            /\ event' = Returned("trade")
    /\ UNCHANGED << client, use_testnet, running, thread, positions,
                    available_loans, trade_history, last_update, error_message,
                    max_ltv, min_ltv, auto_rebalance, now, hargs, loops, history >>

(* --------------------------- specifications --------------------------- *)

\* What the exchange does when a refresh step runs: it would answer a data
\* call ("up") or fail it ("down").
RemoteStates == {"up", "down"}

LoopStep ==
    \/ LoopCheck
    \/ \E rem \in RemoteStates : RefreshPositions(rem)
    \/ \E rem \in RemoteStates : RefreshLoans(rem)
    \/ FinishCycle
    \/ LoopException

\* The calls are issued one after the other by a single caller (a call begins
\* only after the previous one has returned), while the loop threads run.
Next ==
    \/ \E creds \in BOOLEAN, a \in StartArgs : StartCall("h1", creds, a)
    \/ \E s \in ConnectScenarios : InitializeClient("h1", s)
    \/ StartSpawn("h1")
    \/ StopCall("h1")
    \/ StopJoin("h1")
    \/ LoopStep

Spec == Init /\ [][Next]_vars

\* Start and stop requests arrive on any handler thread and interleave freely
\* with each other and with the loop threads.  One connection attempt of each
\* kind is enough here: live, demo mode, failed.
RaceScenarios ==
    { << "ok", "ok", "ok", "ok" >>,
      << "ok", "api_restricted", "ok", "api_restricted" >>,
      << "ok", "api_other", "ok", "ok" >> }

NextRace ==
    \/ \E h \in Handlers, creds \in BOOLEAN, a \in StartArgs : StartCall(h, creds, a)
    \/ \E h \in Handlers, s \in RaceScenarios : InitializeClient(h, s)
    \/ \E h \in Handlers : StartSpawn(h)
    \/ \E h \in Handlers : StopCall(h)
    \/ \E h \in Handlers : StopJoin(h)
    \/ LoopStep

InitRace == Init /\ ~use_testnet

SpecRace == InitRace /\ [][NextRace]_vars

\* The inputs of the manual actions: transfer amounts 1000.00 and 2500.00,
\* expected profits 0 and 15.50.
TradeAmounts == {100000, 250000}

TradeProfits == {0, 1550}

\* A single caller issues start, stop and the manual actions one after the
\* other while the clock advances.  The loop threads stay where StartSpawn
\* puts them: no statement of _bot_loop assigns self.trade_history or one of
\* the counters the manual actions change.
NextManual ==
    \/ \E creds \in BOOLEAN : StartCall("h1", creds, NoArgs)
    \/ \E s \in RaceScenarios : InitializeClient("h1", s)
    \/ StartSpawn("h1")
    \/ StopCall("h1")
    \/ StopJoin("h1")
    \/ Tick
    \/ \E amount \in TradeAmounts, profit \in TradeProfits :
           ExecuteManualArbitrage("h1", amount, profit)
    \/ ExecuteManualRebalance("h1")

SpecManual == InitRace /\ [][NextManual]_vars

\* The loop threads under fair scheduling: a thread that can take its next
\* step (a remote call or time.sleep returns, the interpreter schedules it)
\* eventually takes it.  The caller is under no obligation to call again.
NextLive ==
    \/ \E creds \in BOOLEAN : StartCall("h1", creds, NoArgs)
    \/ \E s \in RaceScenarios : InitializeClient("h1", s)
    \/ StartSpawn("h1")
    \/ StopCall("h1")
    \/ StopJoin("h1")
    \/ LoopStep

SpecLive == InitRace /\ [][NextLive]_vars /\ WF_vars(LoopStep)

\* Manual-arbitrage requests arrive on any handler thread and interleave with
\* each other and with the start and stop calls of the first handler.  As in
\* NextManual the loop threads stay where StartSpawn puts them.
NextTrades ==
    \/ \E creds \in BOOLEAN : StartCall("h1", creds, NoArgs)
    \/ \E s \in RaceScenarios : InitializeClient("h1", s)
    \/ StartSpawn("h1")
    \/ StopCall("h1")
    \/ StopJoin("h1")
    \/ \E h \in Handlers, amount \in TradeAmounts, profit \in TradeProfits :
           ArbitrageAppend(h, amount, profit)
    \/ \E h \in Handlers, k \in DOMAIN ArbitrageCounters : ArbitrageLoad(h, k)
    \/ \E h \in Handlers, k \in DOMAIN ArbitrageCounters : ArbitrageStore(h, k)
    \/ ExecuteManualRebalance("h2")

SpecTrades == InitRace /\ [][NextTrades]_vars

\* A second handler serves get_strategy_analysis requests while the first one
\* starts and stops the scheduler and the loop threads run.
NextStrategy ==
    \/ \E creds \in BOOLEAN : StartCall("h1", creds, NoArgs)
    \/ \E s \in RaceScenarios : InitializeClient("h1", s)
    \/ StartSpawn("h1")
    \/ StopCall("h1")
    \/ StopJoin("h1")
    \/ LoopStep
    \/ StrategyStep("h2")

SpecStrategy == InitRace /\ [][NextStrategy]_vars

\* Positions for the analysis functions: the two records of demo mode, and
\* three of the shape _process_positions builds (without loan_amount), with
\* hourly rates at distance 0.1 and 0.5 of the first demo record's, one
\* without any rate field, and LTV percentages on and off the thresholds.
SamplePositions ==
    { DemoModePositions[1],
      DemoModePositions[2],
      [loan_id |-> "USDT_BTC", loan_coin |-> "USDT", collateral_coin |-> "BTC",
       total_debt |-> 100000, collateral_amount |-> 2000, ltv_percentage |-> 800,
       risk_level |-> "HIGH", hourly_rate |-> 140000],
      [loan_id |-> "USDC_ETH", loan_coin |-> "USDC", collateral_coin |-> "ETH",
       total_debt |-> 50000, collateral_amount |-> 3000, ltv_percentage |-> 400,
       risk_level |-> "LOW", hourly_rate |-> 100000],
      [loan_id |-> "BUSD_BNB", loan_coin |-> "BUSD", collateral_coin |-> "BNB",
       total_debt |-> 20000, collateral_amount |-> 1000, ltv_percentage |-> 750,
       risk_level |-> "MEDIUM"] }

\* The stores: lists of at most MaxPositions different positions.
PositionStores ==
    { ps \in UNION { [1..n -> SamplePositions] : n \in 0..MaxPositions } :
          \A i, j \in DOMAIN ps : i # j => ps[i].loan_id # ps[j].loan_id }

\* (max_ltv, min_ltv) as start_bot may set them (it does not compare them):
\* the defaults, an override, and an override with min_ltv above max_ltv.
LtvSettings == { << DefaultMaxLtv, DefaultMinLtv >>, << 800, 400 >>, << 600, 700 >> }

\* currentLTV of a raw position, in 1/1000: fractions below 1 on and next to
\* the thresholds of the risk levels, the fraction 1, and 83.0 and 70.1 given
\* as percentages.
LtvSamples == {0, 650, 700, 701, 770, 771, 820, 821, 830, 900, 999, 1000,
               70100, 83000}

RawPositions ==
    { [loanCoin |-> "USDT", collateralCoin |-> "BTC", totalDebt |-> 100000,
       collateralAmount |-> 2000, currentLTV |-> c, hourlyInterestRate |-> 12] :
          c \in LtvSamples }
    \cup { [asset |-> "USDT", borrowed |-> 150000] }

\* Assets of a margin account: two with debt, one without, one whose borrowed
\* amount is text, one whose borrowed amount is None, and two with debt and a
\* currentLTV that is text or None.
AssetSamples ==
    { [asset |-> "USDT", borrowed |-> 150000],
      [asset |-> "ETH", borrowed |-> 20000],
      [asset |-> "BTC", borrowed |-> 0],
      [asset |-> "BNB", bad |-> [field |-> "borrowed", holds |-> "text"]],
      [asset |-> "XRP", bad |-> [field |-> "borrowed", holds |-> "None"]],
      [asset |-> "ADA", borrowed |-> 5000,
       bad |-> [field |-> "currentLTV", holds |-> "text"]],
      [asset |-> "SOL", borrowed |-> 7000,
       bad |-> [field |-> "currentLTV", holds |-> "None"]] }

\* Answers of get_margin_account: at most MaxResponse assets.
MarginAccounts == UNION { [1..n -> AssetSamples] : n \in 0..MaxResponse }

\* config.margin_call_ltv * 100 as configured, and a stricter setting.
MarginCallSettings == {MarginCallLtv, 800}

InitAnalysis ==
    /\ client = None
    /\ use_testnet = FALSE
    /\ running = FALSE
    /\ thread = FALSE
    /\ positions \in PositionStores
    /\ available_loans = << >>
    /\ trade_history = << >>
    /\ last_update = NoNumber
    /\ error_message = None
    /\ \E s \in LtvSettings : max_ltv = s[1] /\ min_ltv = s[2]
    /\ auto_rebalance = FALSE
    /\ stats = InitStats
    /\ now = 0
    /\ hpc = [h \in Handlers |-> "idle"]
    /\ hargs = [h \in Handlers |-> NoArgs]
    /\ hlocal = [h \in Handlers |-> NoLocals]
    /\ loops = [p \in LoopPcs |-> 0]
    /\ event = NoEvent
    /\ spawnsSinceStop = 0
    /\ afterStop = 0
    /\ everConnected = FALSE

\* The three analysis functions applied to a store and to raw positions.
NextAnalysis ==
    \/ \E raw \in RawPositions, mc \in MarginCallSettings :
           ProcessPositionsCall(raw, mc, LiquidationLtv)
    \/ AnalyzeCall
    \/ GetStrategyAnalysis

SpecAnalysis == InitAnalysis /\ [][NextAnalysis]_vars

\* The live branch of _update_positions applied to one answer after the other.
NextRefresh ==
    \E userAssets \in MarginAccounts : LivePositionsCall(userAssets)

SpecRefresh == InitRace /\ [][NextRefresh]_vars

(* ------------------------------- claims ------------------------------- *)

\* C1: with start and stop calls issued one after the other, at most one
\* loop thread is alive while the scheduler is Running.  (Spec)
C1_OneLoopWhileRunning == running => Alive <= 1

\* C2: of the start calls that pass the running test before any of them has
\* set the flag, with no stop in between, at most one starts a loop thread
\* and returns success.  (SpecRace)
C2_OneSpawnPerStoppedPeriod == spawnsSinceStop <= 1

\* C3: a start_bot call made while the scheduler is Running returns False and
\* changes nothing: no attribute of the service, no loop thread, no
\* connection attempt begun.
C3_StartWhileRunning ==
    [][\A h \in Handlers, creds \in BOOLEAN, a \in StartArgs :
          (running /\ StartCall(h, creds, a)) =>
              /\ event' = Returned("already_running")
              /\ UNCHANGED << engine, loops, handlerVars, history >>]_vars

C3_Witness ==
    /\ event = Returned("already_running")
    /\ running
    /\ Alive > 0
    /\ positions # << >>

\* C4: a stop_bot call made while the scheduler is Stopped returns False and
\* changes nothing.
C4_StopWhileStopped ==
    [][\A h \in Handlers :
          (~running /\ StopCall(h)) =>
              /\ event' = Returned("not_running")
              /\ UNCHANGED << engine, loops, handlerVars, history >>]_vars

C4_Witness ==
    /\ event = Returned("not_running")
    /\ ~running
    /\ stats.start_time # NoNumber
    /\ positions # << >>

\* C5: once stop_bot has set the stop signal and no start follows, at most
\* one cycle, the one already begun, completes.  (Spec)
C5_OneCycleAfterStop == afterStop <= 1

\* C6: when the connection attempt of a start_bot call fails, the call
\* returns False, the scheduler stays Stopped, no loop thread is started,
\* start_time and the configuration are unchanged, and a non-empty error
\* message is recorded.
C6_FailedConnect ==
    [][(event'.kind = "connect" /\ event'.result = "failed") =>
              /\ \A h \in Handlers :
                     (hpc[h] = "init" /\ hpc'[h] # "init") => hpc'[h] = "idle"
              /\ \A h \in Handlers : hpc'[h] # "spawn"
              /\ ~running'
              /\ UNCHANGED << running, thread, loops, max_ltv, min_ltv,
                              auto_rebalance, spawnsSinceStop >>
              /\ stats'.start_time = stats.start_time
              /\ error_message' \notin {None, ""}]_vars

C6_Witness ==
    /\ event.kind = "connect"
    /\ event.result = "failed"
    /\ ~running
    /\ hpc["h1"] = "idle"
    /\ error_message = "Binance API Error"

\* The exceptions the retry test of initialize_client takes for a restricted
\* location, and the one its handler turns into demo mode.
RestrictedErrors == {"api_restricted", "exc_restricted"}

DemoModeInstalled ==
    /\ client = None
    /\ positions = DemoModePositions
    /\ available_loans = DemoModeLoans

\* C7 as stated: when the identity check fails with a restricted-location
\* error and the one retry on the test endpoint fails too, for whatever
\* reason, the connection reports success in demo mode with the demo data.
C7_AnyRetryFailureGivesDemo ==
    ( /\ event.kind = "connect"
      /\ event.prim \in RestrictedErrors
      /\ event.secAttempts = 1
      /\ event.sec # "ok" )
    => ( /\ event.result = "demo"
         /\ DemoModeInstalled
         /\ \E h \in Handlers : hpc[h] = "spawn" )

\* C7 as amended: the retry's failure gives demo mode exactly when it is
\* itself a restricted-location API error; any other failure of the retry
\* makes the connection fail with an error message.
C7_RestrictedRetryFailureGivesDemo ==
    ( /\ event.kind = "connect"
      /\ event.prim \in RestrictedErrors
      /\ event.secAttempts = 1
      /\ event.sec # "ok" )
    => IF event.sec = "api_restricted"
       THEN /\ event.result = "demo"
            /\ DemoModeInstalled
            /\ \E h \in Handlers : hpc[h] = "spawn"
       ELSE /\ event.result = "failed"
            /\ client # None
            /\ error_message \in {"Binance API Error", "Connection Error"}
            /\ \A h \in Handlers : hpc[h] # "spawn"

C7_Witness ==
    /\ event = Connected("api_restricted", 1, "api_restricted", "demo")
    /\ DemoModeInstalled

\* C8: within one connection attempt the test endpoint is tried at most once,
\* and only after a restricted-location failure of the identity check; any
\* other failure of that check gives no retry and no demo mode: the attempt
\* fails and records the error message.
C8_RetryOnlyAfterRestriction ==
    event.kind = "connect" =>
        /\ event.secAttempts <= 1
        /\ event.secAttempts = 1 => event.prim \in RestrictedErrors
        /\ event.prim \in {"api_other", "exc_other"} =>
              /\ event.secAttempts = 0
              /\ event.result = "failed"
              /\ client # None
              /\ error_message \in {"Binance API Error", "Connection Error"}
              /\ \A h \in Handlers : hpc[h] # "spawn"

C8_Witness ==
    /\ event = Connected("api_other", 0, "na", "failed")
    /\ error_message = "Binance API Error"
    /\ positions = << >>

C10_FailedRefreshEmpties ==
    ( /\ event.kind = "refresh"
      /\ event.live
      /\ event.remote = "down" )
    => /\ event.list = "positions" => positions = << >>
       /\ event.list = "loans" => available_loans = << >>

C10_Witness ==
    /\ event = Refreshed("positions", TRUE, "down", TRUE)
    /\ client # None
    /\ positions = << >>

\* C11: in live mode, after a refresh step for which the exchange answered,
\* the Position Store holds exactly the positions derived from the answer (one
\* per well-formed record with a positive borrowed amount) and the product
\* list exactly the products derived from the answer.
C11_LiveRefreshStoresResponse ==
    (event.kind = "refresh" /\ event.live /\ event.remote = "up") =>
        /\ event.list = "positions" =>
               /\ Len(positions) = Len(ProcessPositions(BorrowedAssets(RemoteUserAssets)))
               /\ positions = ProcessPositions(BorrowedAssets(RemoteUserAssets))
        /\ event.list = "loans" =>
               /\ Len(available_loans) = Len(LoanProducts(FirstTen(RemoteAllAssets)))
               /\ available_loans = LoanProducts(FirstTen(RemoteAllAssets))

\* Demo (simulated) mode: _setup_demo_mode has run (only it puts demo_trade_1
\* at the head of the trade history) and self.client has not been assigned
\* since (only it and the constructor set self.client to None).
SimulatedMode ==
    /\ client = None
    /\ trade_history # << >>
    /\ trade_history[1].id = "demo_trade_1"

C13_ManualArbitrageAppends ==
    [][\A amount \in TradeAmounts, profit \in TradeProfits :
          ExecuteManualArbitrage("h1", amount, profit) =>
              /\ Len(trade_history') = Len(trade_history) + 1
              /\ SubSeq(trade_history', 1, Len(trade_history)) = trade_history
              /\ LET trade == trade_history'[Len(trade_history')]
                 IN  /\ trade.type = "MANUAL_ARBITRAGE"
                     /\ trade.status = "SIMULATED"
                     /\ trade.amount = amount
                     /\ trade.fees * 1000 = amount
                     /\ trade.profit = profit
              /\ stats'.total_trades = stats.total_trades + 1
              /\ stats'.successful_trades = stats.successful_trades + 1
              /\ stats'.total_profit = stats.total_profit + profit
              /\ stats'.failed_trades = stats.failed_trades
              /\ UNCHANGED << positions, available_loans, running >>]_vars

C13_Witness ==
    /\ event = Returned("trade")
    /\ running
    /\ Len(trade_history) = 2
    /\ trade_history[2].amount = 100000
    /\ trade_history[2].fees = 100
    /\ trade_history[2].profit = 1550
    /\ stats.total_trades = 2

\* C14: every execute_manual_rebalance call appends exactly one trade of
\* type MANUAL_REBALANCE to the trade history, which is one entry longer
\* after the call.  (SpecManual)
C14_ManualRebalanceAppends ==
    [][ExecuteManualRebalance("h1") =>
           /\ Len(trade_history') = Len(trade_history) + 1
           /\ trade_history'[Len(trade_history')].type = "MANUAL_REBALANCE"
           /\ trade_history'[Len(trade_history')].status = "SIMULATED"]_vars

\* C15: the trade history is append-only: every step keeps the trades it
\* held, unchanged and in order, and never shortens it.  (SpecManual)
C15_HistoryAppendOnly ==
    [][/\ Len(trade_history') >= Len(trade_history)
       /\ SubSeq(trade_history', 1, Len(trade_history)) = trade_history]_vars

\* C16: the ids of the trades in the trade history are pairwise distinct.
\* (SpecManual)
C16_TradeIdsDistinct ==
    \A i, j \in 1..Len(trade_history) :
        i # j => trade_history[i].id # trade_history[j].id

\* C17: for every margin-call threshold and every LTV percentage, position
\* processing stores margin_call_buffer = margin_call_ltv * 100 - ltv_percentage
\* and liquidation_buffer = liquidation_ltv * 100 - ltv_percentage, and exactly
\* one risk level: CRITICAL iff the buffer is below 3 points, HIGH iff it is
\* in [3, 8), MEDIUM iff in [8, 15), LOW iff 15 or more.  (SpecAnalysis)
C17_RiskLevelByBuffer ==
    event.kind = "processed" =>
        LET out == event.out
            buffer == event.margin_call_ltv - out.ltv_percentage
        IN  /\ out.margin_call_buffer = buffer
            /\ out.liquidation_buffer = event.liquidation_ltv - out.ltv_percentage
            /\ out.risk_level \in {"CRITICAL", "HIGH", "MEDIUM", "LOW"}
            /\ out.risk_level = "CRITICAL" <=> buffer < 30
            /\ out.risk_level = "HIGH" <=> (30 <= buffer /\ buffer < 80)
            /\ out.risk_level = "MEDIUM" <=> (80 <= buffer /\ buffer < 150)
            /\ out.risk_level = "LOW" <=> buffer >= 150

C17_Witness ==
    /\ event.kind = "processed"
    /\ event.margin_call_ltv = 850
    /\ event.out.ltv_percentage = 830
    /\ event.out.margin_call_buffer = 20
    /\ event.out.risk_level = "CRITICAL"

\* The index pairs (i, j), i < j, of the store whose rates differ by more
\* than 0.1, and the order of the pair enumeration.
SpreadPairs(ps) ==
    { pr \in (1..Len(ps)) \X (1..Len(ps)) :
          pr[1] < pr[2] /\ Abs(Rate(ps[pr[2]]) - Rate(ps[pr[1]])) > 10000 }

PairBefore(p, q) == p[1] < q[1] \/ (p[1] = q[1] /\ p[2] < q[2])

\* C18: the analyzer returns, in pair-enumeration order, exactly one
\* opportunity for each pair (i, j), i < j, with |rate(j) - rate(i)| > 0.1 and
\* none for any other pair, with confidence HIGH iff |spread| > 0.5 and MEDIUM
\* otherwise; the result is empty for fewer than two positions and has at most
\* n(n-1)/2 entries.  (SpecAnalysis)
C18_OpportunitiesPerPair ==
    event.kind = "opportunities" =>
        LET out == event.out
            n == Len(positions)
            pairs == SpreadPairs(positions)
        IN  /\ Len(out) = Cardinality(pairs)
            /\ 2 * Len(out) <= n * (n - 1)
            /\ n < 2 => out = << >>
            /\ \A k \in 1..Len(out) :
                   \E pr \in pairs :
                       /\ Cardinality({q \in pairs : PairBefore(q, pr)}) = k - 1
                       /\ out[k].from_loan_id = positions[pr[1]].loan_id
                       /\ out[k].to_loan_id = positions[pr[2]].loan_id
                       /\ out[k].rate_spread =
                              Rate(positions[pr[2]]) - Rate(positions[pr[1]])
                       /\ out[k].confidence = "HIGH" <=> Abs(out[k].rate_spread) > 50000
                       /\ out[k].confidence = "MEDIUM" <=> Abs(out[k].rate_spread) <= 50000

C18_Witness ==
    /\ event.kind = "opportunities"
    /\ Len(positions) = 3
    /\ Len(event.out) = 2
    /\ event.out[1].confidence = "HIGH"
    /\ event.out[2].confidence = "MEDIUM"
    /\ \E i, j \in 1..3 : i < j /\ Abs(Rate(positions[j]) - Rate(positions[i])) = 10000

\* The recommendations of the given action for the position pos.
RecsFor(recs, pos, action) ==
    { k \in 1..Len(recs) : recs[k].loan_id = pos.loan_id /\ recs[k].action = action }

\* C19 as stated: for all max_ltv and min_ltv and every position of the
\* store, a REDUCE recommendation of total_debt * 0.1 iff ltv_percentage >
\* max_ltv * 100, and an INCREASE recommendation of collateral_amount * 0.1
\* iff ltv_percentage < min_ltv * 100.  (SpecAnalysis)
C19_RecommendationIffThreshold ==
    event.kind = "strategy" =>
        \A i \in 1..Len(positions) :
            LET pos == positions[i]
                recs == event.recommendations
            IN  /\ RecsFor(recs, pos, "REDUCE") # {} <=> pos.ltv_percentage > max_ltv
                /\ RecsFor(recs, pos, "INCREASE") # {} <=> pos.ltv_percentage < min_ltv

\* C19, amended: REDUCE iff ltv_percentage > max_ltv * 100; INCREASE iff
\* ltv_percentage < min_ltv * 100 and not ltv_percentage > max_ltv * 100; at
\* most one recommendation per position, of amount total_debt * 0.1
\* respectively collateral_amount * 0.1; none for the other positions.
C19_ReduceBeforeIncrease ==
    event.kind = "strategy" =>
        LET recs == event.recommendations
        IN  /\ \A i \in 1..Len(positions) :
                   LET pos == positions[i]
                       reduce == RecsFor(recs, pos, "REDUCE")
                       increase == RecsFor(recs, pos, "INCREASE")
                   IN  /\ reduce # {} <=> pos.ltv_percentage > max_ltv
                       /\ increase # {} <=>
                              (pos.ltv_percentage < min_ltv /\ ~(pos.ltv_percentage > max_ltv))
                       /\ Cardinality(reduce) + Cardinality(increase) <= 1
                       /\ \A k \in reduce : recs[k].amount * 10 = pos.total_debt
                       /\ \A k \in increase : recs[k].amount * 10 = pos.collateral_amount
            /\ \A k \in 1..Len(recs) :
                   \E i \in 1..Len(positions) : recs[k].loan_id = positions[i].loan_id

C19_Witness ==
    /\ event.kind = "strategy"
    /\ max_ltv = 600
    /\ min_ltv = 700
    /\ Len(positions) = 2
    /\ positions[1].ltv_percentage = 685
    /\ positions[2].ltv_percentage = 400
    /\ Len(event.recommendations) = 2
    /\ event.recommendations[1].action = "REDUCE"
    /\ event.recommendations[1].amount = 150000
    /\ event.recommendations[2].action = "INCREASE"
    /\ event.recommendations[2].amount = 300

\* C20: once stop_bot has cleared self.running, and unless a start sets it
\* again, every loop thread eventually exits: a thread that reaches its loop
\* check with the flag cleared leaves the loop instead of beginning another
\* cycle, and eventually no loop thread is left.  (SpecLive)
C20_LoopExitsAfterStop ==
    /\ [][(LoopCheck /\ ~running) =>
              (event' = LoopExited /\ Alive' = Alive - 1)]_vars
    /\ (~running) ~> (running \/ Alive = 0)

C20_Witness ==
    /\ event = LoopExited
    /\ ~running
    /\ Alive = 0
    /\ stats.start_time # NoNumber
    /\ last_update # NoNumber

\* The answer without the records one of whose numeric fields is malformed.
WithoutBadRecords(userAssets) ==
    SelectSeq(userAssets, LAMBDA asset : "bad" \notin DOMAIN asset)

\* C21: a live refresh stores what the answer without its malformed records
\* gives: a record with a malformed numeric field is skipped, the well-formed
\* records of the same answer are all stored.  (SpecRefresh)
C21_BadRecordSkipped ==
    event.kind = "live_positions" =>
        positions = ProcessPositions(BorrowedAssets(WithoutBadRecords(event.response)))

\* get_status()['connected']: `self.client is not None`.
StatusConnected == client # None

\* C22: the scheduler is Running, and get_status reports the engine as
\* connected, only if some connection attempt has succeeded, live or in demo
\* mode.  (Spec)
C22_RunningOnlyAfterConnect ==
    (running \/ StatusConnected) => everConnected

\* C23: once a connection attempt has succeeded, live or in demo mode, no
\* start_bot call without credentials is turned down for want of a session:
\* it goes on to start the loop.  (Spec)
C23_SessionRetained ==
    event = Returned("no_credentials") => ~everConnected

\* C24: a currentLTV given as a fraction from 0 to 1, 1 included, is brought
\* to the percent scale: the processed ltv_percentage is currentLTV x 100
\* (c thousandths are c tenths of a percentage point).  (SpecAnalysis)
C24_FractionToPercent ==
    (/\ event.kind = "processed"
     /\ "currentLTV" \in DOMAIN event.raw
     /\ event.raw.currentLTV <= 1000) =>
        event.out.ltv_percentage = event.raw.currentLTV

\* C25: every position in self.positions has the risk level the if/elif
\* chain gives for its own ltv_percentage and config.margin_call_ltv.  (Spec)
C25_StoredRiskLevel ==
    \A i \in DOMAIN positions :
        positions[i].risk_level =
            RiskLevel(MarginCallLtv - positions[i].ltv_percentage)

\* C26: no step of a request handler (start_bot with its connection attempt,
\* stop_bot, the manual actions) changes self.positions or
\* self.available_loans.  (SpecManual, whose steps are all handler steps)
C26_HandlersLeaveStores ==
    [][positions' = positions /\ available_loans' = available_loans]_vars

\* get_strategy_analysis()['performance']: `self.stats`, as it stands.
Performance == stats

\* C27: in every state the average profit per trade that the strategy
\* analysis reports is total_profit / total_trades when there are trades and
\* 0 when there are none.  (SpecManual)
C27_AverageProfit ==
    Performance.average_profit_per_trade =
        IF Performance.total_trades > 0
        THEN Performance.total_profit \div Performance.total_trades
        ELSE 0

\* The average get_strategy_analysis reports for the store ps.
AverageLtv(ps) == IF ps # << >> THEN SumLtv(ps) \div Len(ps) ELSE 0

\* C28: a get_strategy_analysis call that runs while other threads assign
\* self.positions does not fail, and its opportunities, recommendations,
\* average LTV and positions at risk are all those of one store content, the
\* one its first statement read.  (SpecStrategy)
C28_AnalysisOfOneStore ==
    event.kind = "analysis" =>
        /\ ~event.failed
        /\ event.opportunities = AnalyzeArbitrageOpportunities(event.first)
        /\ event.recommendations = Recommendations(event.first, max_ltv, min_ltv)
        /\ event.average_ltv = AverageLtv(event.first)
        /\ event.positions_at_risk = PositionsAtRisk(event.first)

\* C29: whenever no manual action is in the middle of its execution,
\* total_trades is the number of entries of the trade history and the sum of
\* successful_trades and failed_trades.  (SpecTrades)
C29_CountersMatchHistory ==
    (\A h \in Handlers : hpc[h] \notin ArbitragePcs) =>
        /\ stats.total_trades = Len(trade_history)
        /\ stats.total_trades = stats.successful_trades + stats.failed_trades

====
